---- MODULE Spec2Model ----
(***************************************************************************)
(* canvas-downloader (src/main.rs): the crawl of the remote folder tree    *)
(* into the shared list files_to_download, the static partition of that    *)
(* list over num_cpus workers, and the workers' downloads.                 *)
(*                                                                         *)
(* A name is a sequence of one-character strings, a path a sequence of     *)
(* names (its components).  A link is a tuple naming a listing.            *)
(***************************************************************************)
EXTENDS Integers, Sequences, FiniteSets, TLC

\* ------------------------------------------------------------------ bounds
\* Largest number of worker threads (num_cpus::get()) the model draws.
MaxWorkers == 3
\* Largest list length and worker count of the partition-only specification.
MaxFiles == 12
MaxPartWorkers == 5
\* Largest number of body chunks a GET stream yields.
MaxChunks == 2
\* Number of times the program is run against the same disk.
MaxRuns == 2
\* Largest number of worker threads in the specification of several runs.
MaxRerunWorkers == 1
\* Largest number of worker threads in the specification with fairness.
MaxLiveWorkers == 2
\* Longest remote name of the specification of names.
MaxNameLen == 3

\* ------------------------------------------------------------------ names
\* Option: None is the empty tuple, Some(x) the tuple of x.
None == <<>>

Some(x) == <<x>>

NameA == <<"a">>
NameB == <<"b">>
NameX == <<"x">>
NameY == <<"y">>
NameZ == <<"z">>
NameASlash == <<"a", "/">>
NameXSlash == <<"x", "/">>
NameDotDot == <<".", ".">>
NameRoot == <<"r">>

\* Characters sanitize_filename removes from a name.
Illegal == {"/", "?", "<", ">", "\\", ":", "*", "|", "\""}

NotIllegal(c) == c \notin Illegal

\* (mutant) names are used as they come.
sanitize_raw(name) == name

\* sanitize_filename::sanitize: illegal characters are removed, then a name
\* made of dots only (".", "..") is replaced by the empty name.
sanitize(name) ==
    LET s == SelectSeq(name, NotIllegal)
    IN  IF s # <<>> /\ \A i \in 1..Len(s) : s[i] = "." THEN <<>> ELSE s

\* PathBuf::join with a relative component; joining the empty name leaves
\* the path naming the same directory.
join(path, name) == IF name = <<>> THEN path ELSE Append(path, name)

parent(path) == SubSeq(path, 1, Len(path) - 1)

\* args.destination_folder
destination_folder == << <<"d">> >>

\* ------------------------------------------------------------ remote trees
Course(id, code) == [id |-> id, course_code |-> code]

Folder(id, name, par) ==
    [id |-> id, name |-> name, parent_folder_id |-> par,
     folders_url |-> <<"folders", id>>, files_url |-> <<"files", id>>]

\* A decoded canvas::File: filepath is #[serde(skip)], so it starts empty.
File(id, fid, name) ==
    [id |-> id, folder_id |-> fid, filename |-> name, url |-> <<"file", id>>,
     filepath |-> <<>>]

\* The account's course list (Vec<Option<Course>>).
CoursesOf(t) ==
    IF t = 1
    THEN <<Some(Course(1, <<"c", "1">>)), None, Some(Course(2, <<"c", "2">>))>>
    ELSE <<Some(Course(3, <<"c", "3">>))>>

\* Line 99: the link of a course's root folder listing.
course_folders_link(id) == <<"by_path", id>>

\* What a folder listing link decodes to.
FoldersAt(link) ==
    CASE link = <<"by_path", 1>> -> <<Folder(1, NameRoot, None)>>
      [] link = <<"folders", 1>> -> <<Folder(2, NameX, Some(1)), Folder(3, NameY, Some(1))>>
      [] link = <<"folders", 3>> -> <<Folder(4, NameZ, Some(3))>>
      [] link = <<"by_path", 2>> -> <<Folder(5, NameRoot, None)>>
      [] link = <<"by_path", 3>> -> <<Folder(6, NameRoot, None)>>
      [] link = <<"folders", 6>> -> <<Folder(7, NameX, Some(6)), Folder(8, NameXSlash, Some(6))>>
      [] link = <<"folders", 7>> -> <<Folder(9, NameB, Some(7))>>
      [] OTHER -> <<>>

\* What a file listing link decodes to.
FilesAt(link) ==
    CASE link = <<"files", 2>> -> <<File(21, 2, NameA)>>
      [] link = <<"files", 4>> -> <<File(41, 4, NameB)>>
      [] link = <<"files", 5>> -> <<File(51, 5, NameA)>>
      [] link = <<"files", 6>> ->
            <<File(61, 6, NameA), File(62, 6, NameASlash), File(63, 6, NameDotDot)>>
      [] link = <<"files", 8>> -> <<File(81, 8, NameB)>>
      [] OTHER -> <<>>

\* The remote servers Init draws from: a tree and the links of it whose body
\* does not decode.
Remotes ==
    { [tree |-> 1, bad |-> {}],
      [tree |-> 1, bad |-> {<<"files", 2>>}],
      [tree |-> 1, bad |-> {<<"folders", 2>>}],
      [tree |-> 1, bad |-> {<<"by_path", 1>>}],
      [tree |-> 2, bad |-> {}],
      [tree |-> 2, bad |-> {<<"folders", 7>>}],
      [tree |-> 2, bad |-> {<<"files", 6>>}] }

\* The local disks the program may start on: the destination folder alone, or
\* a partial mirror left by an earlier run.
InitDisks ==
    { [dirs |-> {destination_folder}, files |-> {}],
      [dirs |-> {destination_folder,
                 join(destination_folder, <<"c", "1">>),
                 join(join(destination_folder, <<"c", "1">>), NameX),
                 join(destination_folder, <<"c", "3">>)},
       files |-> {join(join(join(destination_folder, <<"c", "1">>), NameX), NameA),
                  join(join(destination_folder, <<"c", "3">>), NameA)}] }

\* ------------------------------------------------------------------- state
VARIABLES
    tree,               \* which remote tree the server holds
    bad,                \* links whose response body fails to decode
    num_cpus,           \* num_cpus::get()
    run,                \* which run of the program this is
    dirs, files,        \* the local disk: directories and regular files
    size,               \* the length in bytes of every regular file
    pc,                 \* main's position
    exit,               \* "running", or how the process ended
    courses, ci,        \* main's course list and loop index
    stack,              \* the chain of process_folders / process_files calls
    strong,             \* strong count of the Arc around files_to_download
    lock,               \* holders of the tokio Mutex (call depths)
    files_to_download,  \* the registry, then the final list
    log,                \* the "Failed to deserialize" messages printed
    op,                 \* kind of the last step of the crawl
    listed,             \* per file listed: its id and whether its path existed
    visited,            \* links requested in this run
    start,              \* main's `start` in the spawn loop
    workers,            \* join_handles: the spawned tasks, in spawn order
    dl,                 \* per list index: what the download phase did to it
    prev                \* what the previous run left: its final list, downloads,
                        \* the files it skipped, and the files created so far

vars == <<tree, bad, num_cpus, run, dirs, files, size, pc, exit, courses, ci, stack,
          strong, lock, files_to_download, log, op, listed, visited, start,
          workers, dl, prev>>

\* Path::exists
Exists(path) == path \in dirs \/ path \in files

\* std::fs::create_dir succeeds when the parent is a directory and nothing is
\* at the path.
CanCreateDir(path) == parent(path) \in dirs /\ ~Exists(path)

Frame(fn, link, path) ==
    [fn |-> fn, link |-> link, parent_folder_path |-> path, pc |-> "send",
     items |-> <<>>, k |-> 1]

Top == stack[Len(stack)]

SetTop(f) == [stack EXCEPT ![Len(stack)] = f]

Pop == SubSeq(stack, 1, Len(stack) - 1)

NoPrev ==
    [crawled |-> FALSE, list |-> <<>>, done |-> {}, skipped |-> {}, created |-> {}]

InitRun ==
    /\ pc = "list_courses"
    /\ exit = "running"
    /\ courses = <<>>
    /\ ci = 1
    /\ stack = <<>>
    /\ strong = 1
    /\ lock = {}
    /\ files_to_download = <<>>
    /\ log = <<>>
    /\ op = "none"
    /\ listed = {}
    /\ visited = {}
    /\ start = 0
    /\ workers = <<>>
    /\ dl = <<>>

Init ==
    /\ \E r \in Remotes : tree = r.tree /\ bad = r.bad
    /\ num_cpus \in 1..MaxWorkers
    /\ run = 1
    /\ \E d \in InitDisks :
          dirs = d.dirs /\ files = d.files /\ size = [p \in d.files |-> 1]
    /\ prev = NoPrev
    /\ InitRun

\* ------------------------------------------------------------ main: crawl
\* What main and the workers leave alone during the crawl.
CrawlFrame ==
    UNCHANGED <<tree, bad, num_cpus, run, files, size, start, workers, dl, prev>>

\* A panic (unwrap on Err) on main's task ends the process with a failure.
Panicked ==
    /\ exit' = "panic"
    /\ UNCHANGED pc

\* `?` on Err in main: main returns the error.
Failed ==
    /\ exit' = "err"
    /\ UNCHANGED pc

\* Lines 70-76: the course list is requested and decoded; `?` on both.
ListCourses ==
    /\ exit = "running" /\ pc = "list_courses"
    /\ visited' = visited \cup {<<"courses">>}
    /\ op' = "net"
    /\ \E out \in {"ok", "err"} :
          IF out = "ok"
          THEN /\ courses' = CoursesOf(tree)
               /\ pc' = "courses"
               /\ UNCHANGED exit
          ELSE Failed /\ UNCHANGED courses
    /\ CrawlFrame
    /\ UNCHANGED <<dirs, ci, stack, strong, lock, files_to_download, log, listed>>

\* Line 107: a null entry of the course list is skipped.
SkipCourse ==
    /\ exit = "running" /\ pc = "courses"
    /\ ci <= Len(courses) /\ courses[ci] = None
    /\ ci' = ci + 1
    /\ CrawlFrame
    /\ UNCHANGED <<dirs, pc, exit, courses, stack, strong, lock,
                   files_to_download, log, op, listed, visited>>

\* Lines 89-105: the course directory is made and process_folders is called
\* on the course's root link with a clone of options.
StartCourse ==
    /\ exit = "running" /\ pc = "courses"
    /\ ci <= Len(courses) /\ courses[ci] # None
    /\ LET course == courses[ci][1]
           course_folder_path == join(destination_folder, course.course_code)
       IN  IF ~Exists(course_folder_path) /\ ~CanCreateDir(course_folder_path)
           THEN Failed /\ UNCHANGED <<dirs, stack, strong>>
           ELSE /\ dirs' = IF Exists(course_folder_path) THEN dirs
                           ELSE dirs \cup {course_folder_path}
                /\ stack' = Append(stack,
                       Frame("folders", course_folders_link(course.id),
                             course_folder_path))
                /\ strong' = strong + 1
                /\ pc' = "await_crawl"
                /\ UNCHANGED exit
    /\ op' = "disk"
    /\ CrawlFrame
    /\ UNCHANGED <<courses, ci, lock, files_to_download, log, listed, visited>>

\* (mutant) the call is started and not awaited.
NotAwaited(stk) == TRUE

\* `.await` on a call: the caller goes on once the callee has returned.
Awaited(stk) == stk = <<>>

\* Line 105: process_folders(new_options).await returns; next course.
CourseDone ==
    /\ exit = "running" /\ pc = "await_crawl"
    /\ Awaited(stack)
    /\ ci' = ci + 1
    /\ pc' = "courses"
    /\ CrawlFrame
    /\ UNCHANGED <<dirs, exit, courses, stack, strong, lock, files_to_download,
                   log, op, listed, visited>>

\* Line 109: the course loop ends.
CoursesEnd ==
    /\ exit = "running" /\ pc = "courses"
    /\ ci > Len(courses)
    /\ pc' = "unwrap"
    /\ CrawlFrame
    /\ UNCHANGED <<dirs, exit, courses, ci, stack, strong, lock,
                   files_to_download, log, op, listed, visited>>

\* -------------------------------------------------------- process_folders
IsTop(fn, at) == stack # <<>> /\ Top.fn = fn /\ Top.pc = at

\* A call of the chain takes a step only while the process runs.
CrawlStep == exit = "running"

\* (mutant) an Err of send() is not unwrapped: the caller goes on to decode.
AfterSendSwallowed(out) == "json"

\* What send() does to the caller: Ok goes on to decode the body, Err is
\* unwrapped and panics.
AfterSend(out) == IF out = "ok" THEN "json" ELSE "panic"

\* Lines 199-203: the folder listing is requested.
FoldersSend ==
    /\ CrawlStep /\ IsTop("folders", "send")
    /\ visited' = visited \cup {Top.link}
    /\ \E out \in {"ok", "err"} :
          /\ op' = IF out = "ok" THEN "net" ELSE "net_err"
          /\ IF AfterSend(out) = "panic"
             THEN Panicked /\ UNCHANGED stack
             ELSE /\ stack' = SetTop([Top EXCEPT !.pc = AfterSend(out)])
                  /\ UNCHANGED <<pc, exit>>
    /\ CrawlFrame
    /\ UNCHANGED <<dirs, courses, ci, strong, lock, files_to_download, log, listed>>

\* (mutant) the result of json() is unwrapped.
AfterJsonUnwrapped(decoded) == IF decoded THEN "go" ELSE "panic"

\* What the match on json()'s result does: Ok goes on with the listing, Err
\* prints the failure and returns.
AfterJson(decoded) == IF decoded THEN "go" ELSE "print"

\* Lines 204-208, 235-237: the body is decoded; a failure is printed with the
\* link and the parent path, and the call returns.
FoldersJson ==
    /\ CrawlStep /\ IsTop("folders", "json")
    /\ op' = "net"
    /\ LET to == AfterJson(Top.link \notin bad)
       IN  CASE to = "go" ->
                  /\ stack' = SetTop([Top EXCEPT !.pc = "loop",
                                        !.items = FoldersAt(Top.link), !.k = 1])
                  /\ UNCHANGED <<log, pc, exit>>
             [] to = "print" ->
                  /\ log' = Append(log, [kind |-> "folders", link |-> Top.link,
                                         path |-> Top.parent_folder_path])
                  /\ stack' = SetTop([Top EXCEPT !.pc = "ret"])
                  /\ UNCHANGED <<pc, exit>>
             [] OTHER -> Panicked /\ UNCHANGED <<stack, log>>
    /\ CrawlFrame
    /\ UNCHANGED <<dirs, courses, ci, strong, lock, files_to_download, listed,
                   visited>>

\* (mutant) the root folder is nested like every other folder.
folder_path_nested(folder, parent_folder_path) ==
    join(parent_folder_path, sanitize(folder.name))

\* Lines 211-218: the local directory of a listed folder.
folder_path(folder, parent_folder_path) ==
    IF folder.parent_folder_id # None
    THEN join(parent_folder_path, sanitize(folder.name))
    ELSE parent_folder_path

\* Lines 209-227: the folder's directory is made if absent and process_files
\* is called on its files_url.
FoldersVisit ==
    /\ CrawlStep /\ IsTop("folders", "loop")
    /\ Top.k <= Len(Top.items)
    /\ op' = "disk"
    /\ LET folder == Top.items[Top.k]
           fp == folder_path(folder, Top.parent_folder_path)
       IN  IF ~Exists(fp) /\ ~CanCreateDir(fp)
           THEN Panicked /\ UNCHANGED <<dirs, stack, strong>>
           ELSE /\ dirs' = IF Exists(fp) THEN dirs ELSE dirs \cup {fp}
                /\ stack' = Append(SetTop([Top EXCEPT !.pc = "after_files"]),
                                   Frame("files", folder.files_url, fp))
                /\ strong' = strong + 1
                /\ UNCHANGED <<pc, exit>>
    /\ CrawlFrame
    /\ UNCHANGED <<courses, ci, lock, files_to_download, log, listed, visited>>

\* (mutant) the folder's child folders are not traversed.
FoldersRecurseSkipped ==
    /\ CrawlStep /\ IsTop("folders", "after_files")
    /\ stack' = SetTop([Top EXCEPT !.pc = "after_folders"])
    /\ CrawlFrame
    /\ UNCHANGED <<dirs, pc, exit, courses, ci, strong, lock, files_to_download,
                   log, op, listed, visited>>

\* Lines 229-232: process_files has returned; process_folders is called on
\* the folder's folders_url.
FoldersRecurse ==
    /\ CrawlStep /\ IsTop("folders", "after_files")
    /\ LET folder == Top.items[Top.k]
           fp == folder_path(folder, Top.parent_folder_path)
       IN  stack' = Append(SetTop([Top EXCEPT !.pc = "after_folders"]),
                           Frame("folders", folder.folders_url, fp))
    /\ strong' = strong + 1
    /\ CrawlFrame
    /\ UNCHANGED <<dirs, pc, exit, courses, ci, lock, files_to_download, log, op,
                   listed, visited>>

\* Line 233: the recursive call has returned; next folder of the listing.
FoldersNext ==
    /\ CrawlStep /\ IsTop("folders", "after_folders")
    /\ stack' = SetTop([Top EXCEPT !.pc = "loop", !.k = Top.k + 1])
    /\ CrawlFrame
    /\ UNCHANGED <<dirs, pc, exit, courses, ci, strong, lock, files_to_download,
                   log, op, listed, visited>>

\* Line 239: process_folders returns and drops its options.
FoldersReturn ==
    /\ CrawlStep
    /\ \/ IsTop("folders", "ret")
       \/ IsTop("folders", "loop") /\ Top.k > Len(Top.items)
    /\ stack' = Pop
    /\ strong' = strong - 1
    /\ CrawlFrame
    /\ UNCHANGED <<dirs, pc, exit, courses, ci, lock, files_to_download, log, op,
                   listed, visited>>

\* ---------------------------------------------------------- process_files
\* (mutant) the lock is taken before the filter looks at the disk.
FilesOrderLockEarly ==
    <<"send", "json", "sanitize", "lock", "filter", "append", "unlock", "ret">>

\* (mutant) the guard of the lock is never dropped.
FilesOrderNoUnlock ==
    <<"send", "json", "sanitize", "filter", "lock", "append", "ret">>

\* The order of process_files' steps (lines 243-269): request, decode,
\* resolve the local paths, filter on the disk, lock, append, release.
FilesOrder ==
    <<"send", "json", "sanitize", "filter", "lock", "append", "unlock", "ret">>

FilesAfter(at) ==
    LET i == CHOOSE j \in 1..Len(FilesOrder) : FilesOrder[j] = at
    IN  FilesOrder[i + 1]

\* Lines 243-247: the file listing is requested.
FilesSend ==
    /\ CrawlStep /\ IsTop("files", "send")
    /\ visited' = visited \cup {Top.link}
    /\ \E out \in {"ok", "err"} :
          /\ op' = IF out = "ok" THEN "net" ELSE "net_err"
          /\ IF AfterSend(out) = "panic"
             THEN Panicked /\ UNCHANGED stack
             ELSE /\ stack' = SetTop([Top EXCEPT !.pc = AfterSend(out)])
                  /\ UNCHANGED <<pc, exit>>
    /\ CrawlFrame
    /\ UNCHANGED <<dirs, courses, ci, strong, lock, files_to_download, log, listed>>

\* Lines 248-252, 266-268: the body is decoded; a failure is printed with the
\* link and the parent path and nothing is appended.
FilesJson ==
    /\ CrawlStep /\ IsTop("files", "json")
    /\ op' = "net"
    /\ LET to == AfterJson(Top.link \notin bad)
       IN  CASE to = "go" ->
                  /\ stack' = SetTop([Top EXCEPT !.pc = FilesAfter("json"),
                                        !.items = FilesAt(Top.link)])
                  /\ UNCHANGED <<log, pc, exit>>
             [] to = "print" ->
                  /\ log' = Append(log, [kind |-> "files", link |-> Top.link,
                                         path |-> Top.parent_folder_path])
                  /\ stack' = SetTop([Top EXCEPT !.pc = "ret"])
                  /\ UNCHANGED <<pc, exit>>
             [] OTHER -> Panicked /\ UNCHANGED <<stack, log>>
    /\ CrawlFrame
    /\ UNCHANGED <<dirs, courses, ci, strong, lock, files_to_download, listed,
                   visited>>

\* Lines 253-256: every file's filepath is its parent path joined with its
\* sanitized filename.
WithPaths(fs, parent_folder_path) ==
    [i \in 1..Len(fs) |->
        [fs[i] EXCEPT !.filepath = join(parent_folder_path, sanitize(fs[i].filename))]]

FilesSanitize ==
    /\ CrawlStep /\ IsTop("files", "sanitize")
    /\ stack' = SetTop([Top EXCEPT !.pc = FilesAfter("sanitize"),
                                   !.items = WithPaths(Top.items, Top.parent_folder_path)])
    /\ op' = "cpu"
    /\ CrawlFrame
    /\ UNCHANGED <<dirs, pc, exit, courses, ci, strong, lock, files_to_download,
                   log, listed, visited>>

\* (mutant) nothing is filtered out.
KeepAll(f) == TRUE

\* (mutant) the filter's predicate is the wrong way round.
KeepExisting(f) == Exists(f.filepath)

\* Line 260: the filter's predicate.
Keep(f) == ~Exists(f.filepath)

\* Lines 259-261: only the files whose filepath does not exist are kept.
FilesFilter ==
    /\ CrawlStep /\ IsTop("files", "filter")
    /\ stack' = SetTop([Top EXCEPT !.pc = FilesAfter("filter"),
                                   !.items = SelectSeq(Top.items, Keep)])
    /\ listed' = listed \cup
          { [id |-> Top.items[i].id, existed |-> Exists(Top.items[i].filepath)] :
                i \in 1..Len(Top.items) }
    /\ op' = "disk"
    /\ CrawlFrame
    /\ UNCHANGED <<dirs, pc, exit, courses, ci, strong, lock, files_to_download,
                   log, visited>>

\* Line 263: lock().await completes once the Mutex is free.
FilesLock ==
    /\ CrawlStep /\ IsTop("files", "lock")
    /\ lock = {}
    /\ lock' = {Len(stack)}
    /\ stack' = SetTop([Top EXCEPT !.pc = FilesAfter("lock")])
    /\ op' = "lock"
    /\ CrawlFrame
    /\ UNCHANGED <<dirs, pc, exit, courses, ci, strong, files_to_download, log,
                   listed, visited>>

\* (mutant) the batch is put in front of the entries already there.
append_front(v, other) == other \o v

\* Vec::append: the elements of other are moved to the end of v.
append(v, other) == v \o other

\* Line 264: the batch is appended to the registry.
FilesAppend ==
    /\ CrawlStep /\ IsTop("files", "append")
    /\ files_to_download' = append(files_to_download, Top.items)
    /\ stack' = SetTop([Top EXCEPT !.pc = FilesAfter("append"), !.items = <<>>])
    /\ op' = "append"
    /\ CrawlFrame
    /\ UNCHANGED <<dirs, pc, exit, courses, ci, strong, lock, log, listed, visited>>

\* Line 265: the guard is dropped at the end of the Ok arm.
FilesUnlock ==
    /\ CrawlStep /\ IsTop("files", "unlock")
    /\ lock' = lock \ {Len(stack)}
    /\ stack' = SetTop([Top EXCEPT !.pc = FilesAfter("unlock")])
    /\ op' = "unlock"
    /\ CrawlFrame
    /\ UNCHANGED <<dirs, pc, exit, courses, ci, strong, files_to_download, log,
                   listed, visited>>

\* Line 270: process_files returns and drops its options.
FilesReturn ==
    /\ CrawlStep /\ IsTop("files", "ret")
    /\ stack' = Pop
    /\ strong' = strong - 1
    /\ CrawlFrame
    /\ UNCHANGED <<dirs, pc, exit, courses, ci, lock, files_to_download, log, op,
                   listed, visited>>

\* ------------------------------------------------------- main: partition
\* What the download phase leaves alone.
DownloadFrame ==
    UNCHANGED <<tree, bad, num_cpus, run, courses, ci, stack, lock, log, op,
                listed, visited, prev>>

\* Line 114
num_worker_threads == num_cpus

\* Line 116
num_worker_extra_work == Len(files_to_download) % num_worker_threads

\* Line 117
min_work == Len(files_to_download) \div num_worker_threads

\* Arc::try_unwrap gives the value only to the last strong reference.
TryUnwrapOk == strong = 1

\* What was done to a list index: the requests made for it, its progress
\* bar (its length, its position, whether it was finished), and the bytes
\* its GET received and its file handle wrote.
NoDownload ==
    [heads |-> 0, skipped |-> FALSE, bar |-> FALSE, creates |-> 0, gets |-> 0,
     chunks |-> 0, finished |-> FALSE, by |-> {},
     total |-> 0, progress |-> 0, received |-> 0, written |-> 0]

\* Lines 114-123: the registry is unwrapped out of its Arc and Mutex (a panic
\* when another reference is alive) and becomes the final list.
Unwrap ==
    /\ exit = "running" /\ pc = "unwrap"
    /\ IF TryUnwrapOk
       THEN /\ pc' = "spawn"
            /\ start' = 0
            /\ workers' = <<>>
            /\ dl' = [i \in 1..Len(files_to_download) |-> NoDownload]
            /\ UNCHANGED exit
       ELSE Panicked /\ UNCHANGED <<start, workers, dl>>
    /\ DownloadFrame
    /\ UNCHANGED <<dirs, files, size, strong, files_to_download>>

\* (mutant) the extra item goes to one worker too many.
workOneMore(i) == IF i <= num_worker_extra_work THEN min_work + 1 ELSE min_work

\* (mutant) the extra items go to the last workers instead of the first.
workLast(i) ==
    IF i >= num_worker_threads - num_worker_extra_work THEN min_work + 1 ELSE min_work

\* Lines 125-128: the number of items of worker i.
work(i) == IF i < num_worker_extra_work THEN min_work + 1 ELSE min_work

\* (mutant) the local file is created before the HEAD request.
WorkerOrderCreateFirst == <<"create", "head", "bar", "get", "chunk">>

\* The order of a worker's steps for one file (lines 138-181): HEAD, progress
\* bar, local file, GET, chunks.
WorkerOrder == <<"head", "bar", "create", "get", "chunk">>

WorkerAfter(at) ==
    LET i == CHOOSE j \in 1..Len(WorkerOrder) : WorkerOrder[j] = at
    IN  IF i < Len(WorkerOrder) THEN WorkerOrder[i + 1] ELSE "chunk"

\* A spawned task: its slice, the index it is at, and where it stands.
Worker(work_start, work_end) ==
    [work_start |-> work_start, work_end |-> work_end, i |-> work_start,
     pc |-> IF work_start < work_end THEN WorkerOrder[1] ELSE "done", chunks |-> 0,
     download_size |-> 0]

\* Lines 124-136, 185: one turn of the spawn loop; i is Len(workers).
SpawnWorker ==
    /\ exit = "running" /\ pc = "spawn"
    /\ Len(workers) < num_worker_threads
    /\ LET work_start == start
           work_end == work_start + work(Len(workers))
       IN  /\ start' = work_end
           /\ workers' = Append(workers, Worker(work_start, work_end))
    /\ DownloadFrame
    /\ UNCHANGED <<dirs, files, size, pc, exit, strong, files_to_download, dl>>

\* Line 186: the spawn loop ends.
SpawnEnd ==
    /\ exit = "running" /\ pc = "spawn"
    /\ Len(workers) = num_worker_threads
    /\ pc' = "join"
    /\ DownloadFrame
    /\ UNCHANGED <<dirs, files, size, exit, strong, files_to_download, start,
                   workers, dl>>

\* ----------------------------------------------------------------- workers
\* (mutant) the loop steps over every other index.
AdvanceByTwo(wk) ==
    [wk EXCEPT !.i = wk.i + 2, !.chunks = 0,
               !.pc = IF wk.i + 2 < wk.work_end THEN WorkerOrder[1] ELSE "done"]

\* Line 137: the worker goes to the next index of its slice, or ends.
Advance(wk) ==
    [wk EXCEPT !.i = wk.i + 1, !.chunks = 0,
               !.pc = IF wk.i + 1 < wk.work_end THEN WorkerOrder[1] ELSE "done"]

CanStep(w, at) == exit = "running" /\ w \in 1..Len(workers) /\ workers[w].pc = at

\* File::create succeeds when the parent is a directory and the path is not
\* one.
CanCreateFile(path) == parent(path) \in dirs /\ path \notin dirs

\* (mutant) the `continue` is missing: the worker goes on with the file.
AfterHeadStatusGoOn(wk) == [wk EXCEPT !.pc = WorkerAfter("head")]

\* What a HEAD response with a non-success status does to the worker: the
\* failure is printed and the loop continues (lines 150-154).
AfterHeadStatus(wk) == Advance(wk)

\* The Content-Length header of the HEAD response for a file: absent, a
\* decimal number, or something else.
ContentLength(id) ==
    CASE id = 21 -> Some(<<"3">>)
      [] id = 51 -> Some(<<"x">>)
      [] id = 61 -> Some(<<"1", "2">>)
      [] OTHER -> None

Digits == <<"0", "1", "2", "3", "4", "5", "6", "7", "8", "9">>

IsDigit(c) == \E d \in 1..10 : Digits[d] = c

RECURSIVE Decimal(_)
Decimal(str) ==
    IF str = <<>> THEN 0
    ELSE 10 * Decimal(SubSeq(str, 1, Len(str) - 1))
         + (CHOOSE d \in 1..10 : Digits[d] = str[Len(str)]) - 1

\* str::parse::<u64>().ok()
ParseU64(str) ==
    IF str # <<>> /\ \A i \in 1..Len(str) : IsDigit(str[i])
    THEN Some(Decimal(str)) ELSE None

\* Lines 145-149: the header parsed as a u64, or 0.
download_size(header) ==
    IF header = None \/ ParseU64(header[1]) = None THEN 0
    ELSE ParseU64(header[1])[1]

\* Lines 138-155: the HEAD request. A transport error panics the task, a
\* non-success status skips the file, a success gives the size.
HeadRequest(w) ==
    /\ CanStep(w, "head")
    /\ LET wk == workers[w]
           n == wk.i + 1
       IN  \E out \in {"ok", "status", "err"} :
              /\ workers' =
                    [workers EXCEPT ![w] =
                        CASE out = "ok" ->
                               [wk EXCEPT !.pc = WorkerAfter("head"),
                                          !.download_size = download_size(
                                              ContentLength(files_to_download[n].id))]
                          [] out = "status" -> AfterHeadStatus(wk)
                          [] OTHER -> [wk EXCEPT !.pc = "panicked"]]
              /\ dl' = [dl EXCEPT ![n] =
                          [@ EXCEPT !.heads = @ + 1, !.by = @ \cup {w},
                                    !.skipped = (out = "status")]]
    /\ DownloadFrame
    /\ UNCHANGED <<dirs, files, size, pc, exit, strong, files_to_download, start>>

\* Lines 157-166: the progress bar is added with the size as its length.
Bar(w) ==
    /\ CanStep(w, "bar")
    /\ LET wk == workers[w]
           n == wk.i + 1
       IN  /\ workers' = [workers EXCEPT ![w] = [wk EXCEPT !.pc = WorkerAfter("bar")]]
           /\ dl' = [dl EXCEPT ![n] =
                       [@ EXCEPT !.bar = TRUE, !.total = wk.download_size]]
    /\ DownloadFrame
    /\ UNCHANGED <<dirs, files, size, pc, exit, strong, files_to_download, start>>

\* Line 168: the local file is created or truncated (a panic when it cannot
\* be).
Create(w) ==
    /\ CanStep(w, "create")
    /\ LET wk == workers[w]
           n == wk.i + 1
           path == files_to_download[n].filepath
       IN  IF CanCreateFile(path)
           THEN /\ files' = files \cup {path}
                /\ size' = [p \in files \cup {path} |->
                               IF p = path THEN 0 ELSE size[p]]
                /\ workers' = [workers EXCEPT ![w] =
                                  [wk EXCEPT !.pc = WorkerAfter("create")]]
                /\ dl' = [dl EXCEPT ![n] = [@ EXCEPT !.creates = @ + 1]]
           ELSE /\ workers' = [workers EXCEPT ![w] = [wk EXCEPT !.pc = "panicked"]]
                /\ UNCHANGED <<files, size, dl>>
    /\ DownloadFrame
    /\ UNCHANGED <<dirs, pc, exit, strong, files_to_download, start>>

\* Lines 170-174: the GET request; a transport error panics the task.
Get(w) ==
    /\ CanStep(w, "get")
    /\ LET wk == workers[w]
           n == wk.i + 1
       IN  \E out \in {"ok", "err"} :
              /\ workers' = [workers EXCEPT ![w] =
                    [wk EXCEPT !.pc = IF out = "ok" THEN WorkerAfter("get")
                                       ELSE "panicked"]]
              /\ dl' = [dl EXCEPT ![n] = [@ EXCEPT !.gets = @ + 1]]
    /\ DownloadFrame
    /\ UNCHANGED <<dirs, files, size, pc, exit, strong, files_to_download, start>>

\* The length of the k-th chunk (from 1) of the body the server sends for a
\* file: chunks of 1 and 2 bytes alternate, starting with 1 for a file of
\* odd id.
ChunkLen(id, k) == 1 + ((id + k) % 2)

\* Line 177: the progress bar moves by the length of the chunk.
inc(progress, len) == progress + len

\* Lines 178-179: the handle writes the chunk at its own position (the bytes
\* it wrote so far); the file is as long as the furthest byte written.
WriteAt(sz, position, len) == IF position + len > sz THEN position + len ELSE sz

\* Lines 176-182: one chunk() of the body. A chunk moves the bar and is
\* written to the file (a panic when the write fails); the end of the stream
\* finishes the bar and ends this file; an error panics.
Chunk(w) ==
    /\ CanStep(w, "chunk")
    /\ LET wk == workers[w]
           n == wk.i + 1
           path == files_to_download[n].filepath
           len == ChunkLen(files_to_download[n].id, wk.chunks + 1)
       IN  \E out \in {"some", "write_err", "none", "err"} :
              /\ out \in {"some", "write_err"} => wk.chunks < MaxChunks
              /\ workers' =
                    [workers EXCEPT ![w] =
                        CASE out = "some" -> [wk EXCEPT !.chunks = @ + 1]
                          [] out = "none" -> Advance(wk)
                          [] OTHER -> [wk EXCEPT !.pc = "panicked"]]
              /\ dl' = [dl EXCEPT ![n] =
                          CASE out = "some" ->
                                 [@ EXCEPT !.chunks = @ + 1,
                                           !.received = @ + len,
                                           !.progress = inc(@, len),
                                           !.written = @ + len]
                            [] out = "write_err" ->
                                 [@ EXCEPT !.chunks = @ + 1,
                                           !.received = @ + len,
                                           !.progress = inc(@, len)]
                            [] out = "none" -> [@ EXCEPT !.finished = TRUE]
                            [] OTHER -> @]
              /\ size' = IF out = "some"
                         THEN [size EXCEPT ![path] = WriteAt(@, dl[n].written, len)]
                         ELSE size
    /\ DownloadFrame
    /\ UNCHANGED <<dirs, files, pc, exit, strong, files_to_download, start>>

\* -------------------------------------------------------------- main: join
\* (mutant) the result of handle.await is dropped.
JoinResultIgnored(at) == "ok"

\* What handle.await yields for a finished task: Ok, or the JoinError of a
\* task that panicked.
JoinResult(at) == IF at = "done" THEN "ok" ELSE "err"

\* Lines 188-192: the handles are awaited in spawn order (the tasks joined
\* so far are a prefix of join_handles); `?` returns a JoinError from main,
\* and after the last handle main returns Ok.
Join ==
    /\ exit = "running" /\ pc = "join"
    /\ LET j == Len(SelectSeq(workers, LAMBDA wk : wk.pc = "joined")) + 1
       IN  IF j > Len(workers)
           THEN exit' = "ok" /\ UNCHANGED workers
           ELSE /\ workers[j].pc \in {"done", "panicked"}
                /\ IF JoinResult(workers[j].pc) = "ok"
                   THEN /\ workers' = [workers EXCEPT ![j].pc = "joined"]
                        /\ UNCHANGED exit
                   ELSE /\ exit' = "err"
                        /\ UNCHANGED workers
    /\ DownloadFrame
    /\ UNCHANGED <<dirs, files, size, pc, strong, files_to_download, start, dl>>

\* --------------------------------------------------------------- next run
\* The program is started again on the disk the last run left.
Rerun ==
    /\ exit # "running"
    /\ run < MaxRuns
    /\ run' = run + 1
    /\ prev' = [crawled |-> pc \in {"spawn", "join"},
                list |-> files_to_download,
                done |-> {n \in 1..Len(dl) : dl[n].finished},
                skipped |-> {files_to_download[n].id :
                                n \in {m \in 1..Len(dl) : dl[m].skipped}},
                created |-> prev.created \cup
                              {files_to_download[n].id :
                                  n \in {m \in 1..Len(dl) : dl[m].creates > 0}}]
    /\ pc' = "list_courses"
    /\ exit' = "running"
    /\ courses' = <<>>
    /\ ci' = 1
    /\ stack' = <<>>
    /\ strong' = 1
    /\ lock' = {}
    /\ files_to_download' = <<>>
    /\ log' = <<>>
    /\ op' = "none"
    /\ listed' = {}
    /\ visited' = {}
    /\ start' = 0
    /\ workers' = <<>>
    /\ dl' = <<>>
    /\ UNCHANGED <<tree, bad, num_cpus, dirs, files, size>>

Next ==
    \/ ListCourses
    \/ SkipCourse
    \/ StartCourse
    \/ CourseDone
    \/ CoursesEnd
    \/ FoldersSend
    \/ FoldersJson
    \/ FoldersVisit
    \/ FoldersRecurse
    \/ FoldersNext
    \/ FoldersReturn
    \/ FilesSend
    \/ FilesJson
    \/ FilesSanitize
    \/ FilesFilter
    \/ FilesLock
    \/ FilesAppend
    \/ FilesUnlock
    \/ FilesReturn
    \/ Unwrap
    \/ SpawnWorker
    \/ SpawnEnd
    \/ \E w \in 1..MaxWorkers : HeadRequest(w)
    \/ \E w \in 1..MaxWorkers : Bar(w)
    \/ \E w \in 1..MaxWorkers : Create(w)
    \/ \E w \in 1..MaxWorkers : Get(w)
    \/ \E w \in 1..MaxWorkers : Chunk(w)
    \/ Join

\* One run of the program.
Spec == Init /\ [][Next]_vars

\* One run in which the runtime keeps polling: main and every spawned task
\* are driven while one of them can take a step (#[tokio::main], line 10),
\* and every request is answered, by a response or by an error.
InitLive == Init /\ num_cpus <= MaxLiveWorkers

SpecLive == InitLive /\ [][Next]_vars /\ WF_vars(Next)

\* Runs of the program one after the other on the same disk and the same
\* remote server.
InitRerun == Init /\ num_cpus <= MaxRerunWorkers

NextRerun == Next \/ Rerun

SpecRerun == InitRerun /\ [][NextRerun]_vars

\* ------------------------------------------- the partition, for any n and w
\* A final list of n files, as a crawl of one folder holding n files leaves it.
ListOf(n) ==
    [i \in 1..n |->
        [File(i, 1, [k \in 1..i |-> "a"]) EXCEPT
            !.filepath = join(destination_folder, [k \in 1..i |-> "a"])]]

\* Main stands at the spawn loop (line 124) with a list of n files and w
\* worker threads.
InitPart ==
    /\ tree = 1 /\ bad = {} /\ run = 1
    /\ dirs = {destination_folder} /\ files = {} /\ size = <<>>
    /\ prev = NoPrev
    /\ num_cpus \in 1..MaxPartWorkers
    /\ \E n \in 0..MaxFiles :
          /\ files_to_download = ListOf(n)
          /\ dl = [i \in 1..n |-> NoDownload]
    /\ pc = "spawn"
    /\ exit = "running"
    /\ courses = <<>> /\ ci = 1 /\ stack = <<>> /\ strong = 1 /\ lock = {}
    /\ log = <<>> /\ op = "none" /\ listed = {} /\ visited = {}
    /\ start = 0
    /\ workers = <<>>

NextPart == SpawnWorker

SpecPart == InitPart /\ [][NextPart]_vars

\* The characters remote names are drawn from: a letter, the dot and the two
\* path separators.
NameChars == {"a", ".", "/", "\\"}

NamesUpTo(n) == UNION {[1..k -> NameChars] : k \in 0..n}

\* The crawl stands in a course directory with one listed item of any name:
\* process_folders at its loop (line 209) with a non-root folder, or
\* process_files about to resolve the path of a file (line 253).
InitNames ==
    /\ tree = 1 /\ bad = {} /\ run = 1 /\ num_cpus = 1
    /\ dirs = {destination_folder, join(destination_folder, <<"c", "1">>)}
    /\ files = {} /\ size = <<>>
    /\ prev = NoPrev
    /\ pc = "await_crawl"
    /\ exit = "running"
    /\ courses = <<Some(Course(1, <<"c", "1">>))>> /\ ci = 1
    /\ \E name \in NamesUpTo(MaxNameLen) :
          \/ stack = <<[Frame("folders", <<"folders", 1>>,
                              join(destination_folder, <<"c", "1">>))
                          EXCEPT !.pc = "loop",
                                 !.items = <<Folder(2, name, Some(1))>>]>>
          \/ stack = <<[Frame("files", <<"files", 1>>,
                              join(destination_folder, <<"c", "1">>))
                          EXCEPT !.pc = "sanitize",
                                 !.items = <<File(21, 1, name)>>]>>
    /\ strong = 2 /\ lock = {}
    /\ files_to_download = <<>>
    /\ log = <<>> /\ op = "net" /\ listed = {} /\ visited = {}
    /\ start = 0
    /\ workers = <<>>
    /\ dl = <<>>

NextNames == FoldersVisit \/ FilesSanitize

SpecNames == InitNames /\ [][NextNames]_vars

\* ------------------------------------------------------------------ claims
\* The slice of the worker spawned i-th (i from 1), as a set of list indices.
Slice(i) == workers[i].work_start .. (workers[i].work_end - 1)

AllSpawned == pc \in {"spawn", "join"} /\ Len(workers) = num_cpus

\* C1: the slices computed so far are contiguous from index 0 (slice 0 starts
\* at 0, each next slice starts where the last ended) and pairwise disjoint,
\* and once all w slices are computed the last one ends at n and every index
\* of [0, n) lies in exactly one slice.
C1_SlicesPartition ==
    /\ Len(workers) >= 1 => workers[1].work_start = 0
    /\ \A i \in 1..Len(workers) : workers[i].work_start <= workers[i].work_end
    /\ \A i \in 1..(Len(workers) - 1) :
          workers[i + 1].work_start = workers[i].work_end
    /\ \A i, j \in 1..Len(workers) : i # j => Slice(i) \cap Slice(j) = {}
    /\ AllSpawned =>
          /\ workers[Len(workers)].work_end = Len(files_to_download)
          /\ \A x \in 0..(Len(files_to_download) - 1) :
                Cardinality({i \in 1..Len(workers) : x \in Slice(i)}) = 1

\* C1 witness: five files have been split over three workers.
C1_Witness ==
    /\ AllSpawned /\ num_cpus = 3 /\ Len(files_to_download) = 5
    /\ workers[3].work_end = 5

SizeOf(i) == workers[i].work_end - workers[i].work_start

\* C2: worker i (from 0) gets n / w + 1 items when i < n % w and n / w items
\* otherwise, so sizes differ by at most one and never grow with i; for n = 7
\* and w = 3 the slices are [0,3), [3,5), [5,7).
C2_SliceSizes ==
    LET n == Len(files_to_download)
        w == num_cpus
    IN  /\ \A i \in 1..Len(workers) :
              SizeOf(i) = (n \div w) + (IF i - 1 < n % w THEN 1 ELSE 0)
        /\ \A i, j \in 1..Len(workers) :
              /\ SizeOf(i) - SizeOf(j) \in {-1, 0, 1}
              /\ i < j => SizeOf(i) >= SizeOf(j)
        /\ (AllSpawned /\ n = 7 /\ w = 3) =>
              /\ workers[1].work_start = 0 /\ workers[1].work_end = 3
              /\ workers[2].work_start = 3 /\ workers[2].work_end = 5
              /\ workers[3].work_start = 5 /\ workers[3].work_end = 7

\* C2 witness: seven files have been split over three workers, the first of
\* which got the extra item.
C2_Witness ==
    /\ AllSpawned /\ num_cpus = 3 /\ Len(files_to_download) = 7
    /\ SizeOf(1) = 3 /\ SizeOf(3) = 2

\* The ids of the files under a folder listing link, when the listings in
\* badset do not decode.
RECURSIVE FilesUnder(_, _)
FilesUnder(link, badset) ==
    IF link \in badset THEN {}
    ELSE UNION { (IF fo.files_url \in badset THEN {}
                  ELSE {f.id : f \in {FilesAt(fo.files_url)[i] :
                                        i \in 1..Len(FilesAt(fo.files_url))}})
                 \cup FilesUnder(fo.folders_url, badset) :
                 fo \in {FoldersAt(link)[i] : i \in 1..Len(FoldersAt(link))} }

\* The ids of the files reachable from the course roots of the tree.
Reachable(badset) ==
    UNION { FilesUnder(course_folders_link(c[1].id), badset) :
            c \in {CoursesOf(tree)[i] : i \in 1..Len(CoursesOf(tree))} \ {None} }

\* How many entries of the registry have this file id.
Count(id) ==
    Cardinality({i \in 1..Len(files_to_download) : files_to_download[i].id = id})

\* The crawl of every course has returned (main is at line 111 or later).
CrawlOver == pc \in {"unwrap", "spawn", "join"}

C4_SecondCrawlEmpty ==
    (run >= 2 /\ prev.crawled /\ prev.done = 1..Len(prev.list)) =>
        /\ files_to_download = <<>>
        /\ dl = <<>>

\* C4 witness: the second crawl has ended, having listed files again, after a
\* first run that downloaded a list of at least two files.
C4_Witness ==
    /\ run = 2 /\ prev.crawled /\ Len(prev.list) >= 2
    /\ prev.done = 1..Len(prev.list)
    /\ CrawlOver /\ listed # {} /\ files_to_download = <<>>

\* C5: from the moment main unwraps the registry (line 115) no call of
\* process_folders or process_files is alive, main holds the only reference
\* and the lock is free; and from then on the list does not change.
C5_PartitionAfterCrawl ==
    /\ [](CrawlOver => (stack = <<>> /\ strong = 1 /\ lock = {}))
    /\ [][CrawlOver => files_to_download' = files_to_download]_vars

\* C5 witness: the spawn loop runs over a list the crawl has filled.
C5_Witness ==
    /\ pc = "spawn" /\ Len(workers) >= 1 /\ Len(files_to_download) >= 2
    /\ exit = "running"

\* C6: at most one call holds the lock; the holder is the running
\* process_files call, the step it has just taken is the lock or the append
\* (never a request, a decode or a look at the disk), and right after the
\* append its next step is the release.
C6_LockAroundAppendOnly ==
    /\ Cardinality(lock) <= 1
    /\ lock # {} =>
          /\ lock = {Len(stack)}
          /\ Top.fn = "files"
          /\ op \in {"lock", "append"}
          /\ op = "lock" => Top.pc = "append"
          /\ op = "append" => Top.pc = "unlock"

\* C6 witness: the batch has been appended under the lock.
C6_Witness ==
    /\ lock # {} /\ op = "append" /\ Len(files_to_download) >= 1

\* The listing links under a folder listing link, each with the local parent
\* path its call is given, when the listings in badset do not decode.
RECURSIVE ListingsUnder(_, _, _)
ListingsUnder(link, path, badset) ==
    {<<link, path>>} \cup
    (IF link \in badset THEN {}
     ELSE UNION { {<<fo.files_url, folder_path(fo, path)>>}
                  \cup ListingsUnder(fo.folders_url, folder_path(fo, path), badset) :
                  fo \in {FoldersAt(link)[i] : i \in 1..Len(FoldersAt(link))} })

\* Every listing the crawl of the tree requests, with its local parent path.
Listings(badset) ==
    UNION { ListingsUnder(course_folders_link(c[1].id),
                          join(destination_folder, c[1].course_code), badset) :
            c \in {CoursesOf(tree)[i] : i \in 1..Len(CoursesOf(tree))} \ {None} }

\* C7: a listing that fails to decode never ends the process; at the end of
\* the crawl one message has been printed for each such listing, naming its
\* link and its local parent path, the registry holds no file of it or of
\* its subtree, and every other listing of every course was requested and
\* its files are in the registry (once each, unless the path existed).
C7_DecodeFailureLocal ==
    /\ (stack # <<>> /\ Top.pc = "json") => exit = "running"
    /\ CrawlOver =>
          /\ visited = {l[1] : l \in Listings(bad)} \cup {<<"courses">>}
          /\ {[link |-> log[i].link, path |-> log[i].path] : i \in 1..Len(log)}
                = {[link |-> l[1], path |-> l[2]] : l \in {x \in Listings(bad) : x[1] \in bad}}
          /\ Len(log) = Cardinality(bad)
          /\ \A i \in 1..Len(files_to_download) :
                files_to_download[i].id \in Reachable(bad)
          /\ \A id \in Reachable(bad) :
                \E l \in listed :
                    l.id = id /\ Count(id) = (IF l.existed THEN 0 ELSE 1)

\* C7 witness: the listing of folder x's subfolders did not decode, and the
\* files of its sibling y and of the next course are in the registry.
C7_Witness ==
    /\ CrawlOver /\ bad = {<<"folders", 2>>}
    /\ Len(log) = 1 /\ log[1].kind = "folders"
    /\ Count(41) = 1 /\ Count(51) = 1

\* C8: once a listing request of the crawl has failed to be sent, the
\* process has ended and not with success, no worker was spawned and no
\* download was started, and nothing is requested or written afterwards.
C8_TransportFailureFatal ==
    /\ [](op = "net_err" =>
            /\ exit \in {"panic", "err"}
            /\ workers = <<>> /\ dl = <<>>
            /\ pc \notin {"spawn", "join"})
    /\ [][op = "net_err" =>
            UNCHANGED <<visited, dirs, files, files_to_download, workers, exit>>]_vars

\* C8 witness: a file listing request failed after other listings were
\* fetched, with links of the tree left unvisited.
C8_Witness ==
    /\ op = "net_err" /\ stack # <<>> /\ Top.fn = "files"
    /\ Cardinality(visited) >= 3
    /\ visited # {l[1] : l \in Listings(bad)} \cup {<<"courses">>}

C10_SuccessMeansAllDone ==
    exit = "ok" =>
        /\ Len(workers) = num_cpus
        /\ \A w \in 1..Len(workers) :
              /\ workers[w].pc = "joined"
              /\ workers[w].i = workers[w].work_end
        /\ \A n \in 1..Len(dl) : dl[n].skipped \/ dl[n].finished

\* C10 witness: the second worker panicked in a download after the first was
\* joined, and main has returned the error.
C10_Witness ==
    /\ exit = "err" /\ Len(workers) >= 2
    /\ workers[1].pc = "joined" /\ workers[2].pc = "panicked"
    /\ dl[workers[2].i + 1].gets = 1

\* C11: no list index ever gets a second HEAD, file creation or GET, and only
\* the worker whose slice holds it touches it; when the process has exited
\* with success every index had its one HEAD by that one worker and ended
\* either downloaded to the end or skipped on its HEAD status, never both, so
\* the downloaded count is n minus the skipped count.
C11_EachIndexOnce ==
    /\ \A n \in 1..Len(dl) :
          /\ dl[n].heads <= 1 /\ dl[n].creates <= 1 /\ dl[n].gets <= 1
          /\ \A w \in dl[n].by : (n - 1) \in Slice(w)
    /\ exit = "ok" =>
          /\ \A n \in 1..Len(dl) :
                /\ dl[n].heads = 1
                /\ Cardinality(dl[n].by) = 1
                /\ dl[n].skipped # dl[n].finished
                /\ dl[n].finished => (dl[n].creates = 1 /\ dl[n].gets = 1)
          /\ Cardinality({n \in 1..Len(dl) : dl[n].finished})
                = Len(files_to_download)
                  - Cardinality({n \in 1..Len(dl) : dl[n].skipped})

\* C11 witness: two workers ended a list of three files with success, one
\* file skipped and two downloaded.
C11_Witness ==
    /\ exit = "ok" /\ num_cpus = 2 /\ Len(dl) = 3
    /\ Cardinality({n \in 1..Len(dl) : dl[n].skipped}) = 1
    /\ Cardinality({n \in 1..Len(dl) : dl[n].finished}) = 2

\* C12: for every file whose download completed (its bar was finished), the
\* progress increments sum to the bytes its handle wrote, which are the bytes
\* its GET received, and the bar is finished only with every chunk written;
\* when the process has exited with success, that number is the size of the
\* local file. Stated as the claim states it; the last part fails when two
\* list entries resolve to one local path (see C15).
C12_ProgressIsBytesWritten ==
    /\ \A n \in 1..Len(dl) :
          dl[n].finished =>
             /\ dl[n].progress = dl[n].written
             /\ dl[n].written = dl[n].received
    /\ exit = "ok" =>
          \A n \in 1..Len(dl) :
             dl[n].finished =>
                /\ files_to_download[n].filepath \in files
                /\ size[files_to_download[n].filepath] = dl[n].written

\* Two list entries with one local path were both downloaded to the end, with
\* different numbers of bytes.
C12_Collision ==
    /\ exit = "ok"
    /\ \E m, n \in 1..Len(dl) :
          /\ m < n
          /\ files_to_download[m].filepath = files_to_download[n].filepath
          /\ dl[m].finished /\ dl[n].finished
          /\ dl[m].written # dl[n].written

\* The folder a process_folders frame is working on, when it has called
\* process_files or process_folders for it.
Calling(j) ==
    /\ j < Len(stack)
    /\ stack[j].fn = "folders"
    /\ stack[j].pc \in {"after_files", "after_folders"}

\* C13: a folder without parent_folder_id maps to the caller's directory
\* unchanged and visiting it creates no directory; a folder with a
\* parent_folder_id maps to the caller's directory extended by one component,
\* the sanitized name (nothing is added when that is empty), and that path
\* exists once the folder is visited; the calls for the folder's files and
\* child folders get the mapped path as their parent path and the folder's
\* own links.
C13_RootFolderRule ==
    /\ [](\A j \in 1..Len(stack) :
            Calling(j) =>
               LET folder == stack[j].items[stack[j].k]
                   callee == stack[j + 1]
                   mapped ==
                      IF folder.parent_folder_id = None
                           \/ sanitize(folder.name) = <<>>
                      THEN stack[j].parent_folder_path
                      ELSE stack[j].parent_folder_path
                              \o <<sanitize(folder.name)>>
               IN  /\ callee.parent_folder_path = mapped
                   /\ mapped \in dirs \cup files
                   /\ stack[j].pc = "after_files" =>
                         callee.fn = "files" /\ callee.link = folder.files_url
                   /\ stack[j].pc = "after_folders" =>
                         callee.fn = "folders" /\ callee.link = folder.folders_url)
    /\ [][(/\ stack # <<>>
           /\ Top.fn = "folders" /\ Top.pc = "loop"
           /\ Top.k <= Len(Top.items)
           /\ Top.items[Top.k].parent_folder_id = None)
          => dirs' = dirs]_vars

\* The root folder of a course is mapped to the course directory, a folder
\* below it to a new subdirectory, and that folder's files are being listed.
C13_Witness ==
    /\ Len(stack) = 3
    /\ Calling(1) /\ stack[1].items[stack[1].k].parent_folder_id = None
    /\ stack[1].pc = "after_folders"
    /\ Calling(2) /\ stack[2].items[stack[2].k].parent_folder_id # None
    /\ stack[2].pc = "after_files"
    /\ stack[3].parent_folder_path = Append(stack[1].parent_folder_path, NameX)
    /\ stack[3].parent_folder_path \in dirs /\ files = {}
    /\ Append(stack[1].parent_folder_path, NameRoot) \notin dirs

\* The folder a process_folders frame is at.
FolderAt(j) == stack[j].items[stack[j].k]

C15_NoSharedPath ==
    /\ \A n \in 1..Len(dl) : \A w \in dl[n].by : (n - 1) \in Slice(w)
    /\ \A m, n \in 1..Len(dl) :
          (m # n /\ dl[m].creates > 0 /\ dl[n].creates > 0)
             => files_to_download[m].filepath # files_to_download[n].filepath

\* Two different workers have both created the same local path and one of
\* them has written to it.
C15_TwoWorkers ==
    \E m, n \in 1..Len(dl) :
       /\ m # n
       /\ files_to_download[m].filepath = files_to_download[n].filepath
       /\ dl[m].creates > 0 /\ dl[n].creates > 0
       /\ dl[m].by # {} /\ dl[n].by # {} /\ dl[m].by \cap dl[n].by = {}
       /\ dl[m].written > 0
       /\ workers[CHOOSE w \in dl[n].by : TRUE].pc = "get"

Separators == {"/", "\\"}

\* One path component that names an entry of the directory it is joined to.
Component(c) ==
    /\ c # <<>>
    /\ \A i \in 1..Len(c) : c[i] \notin Separators
    /\ c \notin {<<".">>, <<".", ".">>}

\* path is the directory par itself or a direct child of it.
Inside(path, par) ==
    \/ path = par
    \/ /\ Len(path) = Len(par) + 1
       /\ SubSeq(path, 1, Len(par)) = par
       /\ Component(path[Len(path)])

\* C16: whatever the remote name, the local path computed for a folder (the
\* parent path of the calls made for it, and the directory created) and for
\* a file (its filepath) is the parent directory or a direct child of it.
C16_PathContained ==
    /\ Len(stack) = 2 =>
          Inside(stack[2].parent_folder_path, stack[1].parent_folder_path)
    /\ \A d \in dirs :
          d = destination_folder
             \/ Inside(d, join(destination_folder, <<"c", "1">>))
    /\ (stack # <<>> /\ Top.fn = "files" /\ Top.pc # "sanitize") =>
          \A i \in 1..Len(Top.items) :
             Inside(Top.items[i].filepath, Top.parent_folder_path)

\* The path of a file named "../" has been computed, and it is the parent
\* directory.
C16_Witness ==
    /\ stack # <<>> /\ Top.fn = "files" /\ Top.pc # "sanitize"
    /\ Len(Top.items) = 1
    /\ Top.items[1].filename = <<".", ".", "/">>
    /\ Top.items[1].filepath = Top.parent_folder_path

\* The size the HEAD response of a list entry gives: 3 for file 21, 12 for
\* file 61, and 0 where the header is absent (41, 62, 81) or not a number
\* (51).
ExpectedSize(n) ==
    CASE files_to_download[n].id = 21 -> 3
      [] files_to_download[n].id = 61 -> 12
      [] OTHER -> 0

\* The worker is busy with list index n (from 1).
BusyWith(w, n) ==
    /\ workers[w].i = n - 1
    /\ workers[w].pc \in {"head", "bar", "create", "get", "chunk", "panicked"}

\* C17: for every file, the bar exists only after one successful HEAD and
\* has the size of the content-length header (0 if absent or unparseable) as
\* its length; the local file is created only with the bar there; the GET
\* is issued only with the file created; chunks are received and the bar is
\* finished only after the GET; and a worker is at a file only when every
\* earlier file of its slice is finished or skipped and no later one has
\* been touched.
C17_StepOrder ==
    /\ \A n \in 1..Len(dl) :
          /\ dl[n].bar =>
                /\ dl[n].heads = 1 /\ ~dl[n].skipped
                /\ dl[n].total = ExpectedSize(n)
          /\ dl[n].creates > 0 => dl[n].bar
          /\ dl[n].gets > 0 => dl[n].creates > 0
          /\ dl[n].received > 0 => dl[n].gets > 0
          /\ dl[n].finished => (dl[n].gets > 0 /\ dl[n].written = dl[n].received)
    /\ \A w \in 1..Len(workers) :
          \A n \in (workers[w].work_start + 1)..workers[w].work_end :
             /\ n - 1 < workers[w].i => (dl[n].finished \/ dl[n].skipped)
             /\ n - 1 > workers[w].i => dl[n].heads = 0
             /\ BusyWith(w, n) => ~(dl[n].finished \/ dl[n].skipped)
             /\ (workers[w].i = n - 1 /\ workers[w].pc = "bar") =>
                   (dl[n].heads = 1 /\ ~dl[n].bar)
             /\ (workers[w].i = n - 1 /\ workers[w].pc = "create") =>
                   (dl[n].bar /\ dl[n].creates = 0)
             /\ (workers[w].i = n - 1 /\ workers[w].pc = "get") =>
                   (dl[n].creates = 1 /\ dl[n].gets = 0)
             /\ (workers[w].i = n - 1 /\ workers[w].pc = "chunk") =>
                   dl[n].gets = 1

\* One worker has downloaded file 61 (length 12) to the end and is
\* streaming the next file of its slice, whose length is 0.
C17_Witness ==
    /\ num_cpus = 1 /\ Len(dl) >= 2 /\ Len(workers) = 1
    /\ dl[1].finished /\ dl[1].total = 12 /\ dl[1].received > 0
    /\ BusyWith(1, 2) /\ workers[1].pc = "chunk"
    /\ dl[2].bar /\ dl[2].total = 0 /\ dl[2].received > 0

\* The ids of a sequence of files.
Ids(fs) == [i \in 1..Len(fs) |-> fs[i].id]

\* C18: the registry is empty when the program starts; every step leaves
\* the old registry as a prefix of the new one; a step that adds entries is
\* the append of process_files and adds the files of its listing that passed
\* the filter, as one block in listing order; and once the crawl is over no
\* step changes the list.
C18_AppendOnly ==
    /\ [](pc = "list_courses" => files_to_download = <<>>)
    /\ [][/\ Len(files_to_download') >= Len(files_to_download)
          /\ SubSeq(files_to_download', 1, Len(files_to_download))
                = files_to_download
          /\ files_to_download' # files_to_download =>
                /\ stack # <<>> /\ Top.fn = "files" /\ Top.pc = "append"
                /\ LET block == SubSeq(files_to_download',
                                       Len(files_to_download) + 1,
                                       Len(files_to_download'))
                       listing == Ids(FilesAt(Top.link))
                   IN  /\ Ids(block)
                            = SelectSeq(listing,
                                 LAMBDA id : \E i \in 1..Len(block) : block[i].id = id)
                       /\ \A i \in 1..Len(block) :
                             [id |-> block[i].id, existed |-> FALSE] \in listed
          /\ CrawlOver => files_to_download' = files_to_download]_vars

\* The second append of a crawl has just been made, after a first one that
\* added a block of two files.
C18_Witness ==
    /\ op = "append"
    /\ Ids(files_to_download) = <<61, 62, 81>>

\* A step of the run has failed: main panicked or returned an error, or a
\* worker panicked.
Failure ==
    \/ exit \in {"panic", "err"}
    \/ \E w \in 1..Len(workers) : workers[w].pc = "panicked"

\* C19: every run ends: the process eventually exits; the crawl of every
\* course eventually completes unless a failure ends the process first; once
\* the crawl is complete the process eventually exits; and unless a step
\* fails, the run ends with every one of the num_cpus workers at the end of
\* its slice and the process exiting with success.
C19_Terminates ==
    /\ <>(exit # "running")
    /\ <>(CrawlOver \/ exit \in {"panic", "err"})
    /\ (CrawlOver ~> (exit # "running"))
    /\ <>(\/ Failure
          \/ /\ exit = "ok"
             /\ Len(workers) = num_cpus
             /\ \A w \in 1..Len(workers) : workers[w].i = workers[w].work_end)

\* The tree with folders nested three deep was crawled to the end, all its
\* files were downloaded and the process has exited.
C19_Witness ==
    /\ exit = "ok" /\ ~Failure
    /\ Ids(files_to_download) = <<21, 41, 51>>
    /\ visited = {l[1] : l \in Listings({})} \cup {<<"courses">>}
    /\ \A n \in 1..Len(dl) : dl[n].finished

\* C20: no step removes a local file; in a later run the registry holds no
\* file whose local file an earlier run created, whether or not its download
\* came to its end; and when the crawl of a later run is over, the registry
\* holds every file the run before skipped on its HEAD status. Stated as the
\* claim states it; the last part fails when the path of the skipped file
\* was created for another list entry (see C15).
C20_CreatedNeverRequeued ==
    /\ [][files \subseteq files']_vars
    /\ [](run >= 2 =>
            \A n \in 1..Len(files_to_download) :
               files_to_download[n].id \notin prev.created)
    /\ []((run >= 2 /\ CrawlOver) =>
            \A id \in prev.skipped :
               \E n \in 1..Len(files_to_download) : files_to_download[n].id = id)

\* In the second run the crawl is over; the first run skipped file 61 on its
\* HEAD status and created the local file of file 62, which has the same
\* path.
C20_SkippedNotFound ==
    /\ run = 2 /\ CrawlOver
    /\ 61 \in prev.skipped /\ 62 \in prev.created
    /\ \A n \in 1..Len(files_to_download) : files_to_download[n].id # 61
====
